---- MODULE Spec2Model ----
(***************************************************************************)
(* A model of the two example notebooks of the repository:                 *)
(*   examples/NoiseInvestigation.ipynb  - a scan over noise parameters     *)
(*   examples/QubitPlaceholder.ipynb    - addressing of qubit placeholders *)
(*                                                                         *)
(* Angles are integers in units of pi/38, so that the 20 points of         *)
(* np.linspace(-pi, pi, num=20) are the integers -38, -34, ..., 38.        *)
(* Times are integers in picoseconds, so that np.logspace(-6, -5, num=3)   *)
(* is 1000000, 3162278, 10000000 and t1/2 is exact.                        *)
(* A number x/N (a mean, an expectation value) is the pair                 *)
(* [num |-> x, den |-> N]; the arithmetic on such pairs is exact.          *)
(***************************************************************************)
EXTENDS Integers, Sequences, FiniteSets

VARIABLES
    \* ---- NoiseInvestigation.ipynb
    pc,          \* position of the notebook's control
    i,           \* index into thetas of the outer loop
    j,           \* index into t1s of the inner loop
    prog,        \* the notebook's variable prog
    noisy,       \* the notebook's variable noisy
    bitstrings,  \* the notebook's variable bitstrings
    z,           \* the notebook's variables z0, z1, zz
    records,     \* the notebook's list records
    outstanding, \* the requests sent to the simulator and not yet answered
    calls,       \* the number of calls of qc.run issued so far
    seed,        \* the simulator's random state at start
    k,           \* index into t1s of the plot loop
    dfs,         \* the selections df of the plot loop, one per iteration run
    ax1, ax2, ax3, \* the lines drawn on the three axes
    \* ---- QubitPlaceholder.ipynb
    nb,          \* the cell the notebook runs next
    ph_prog,     \* the notebook's variable prog
    qubit_mapping, \* the mapping given to address_qubits
    printed,     \* what the cells have printed, in order
    \* ---- calls of get_compiled_prog
    args,        \* the arguments of the calls
    compiled     \* the programs returned, in order

noiseVars == <<pc, i, j, prog, noisy, bitstrings, z, records, outstanding,
               calls, seed, k, dfs, ax1, ax2, ax3>>

phVars == <<nb, ph_prog, qubit_mapping, printed>>

fnVars == <<args, compiled>>

vars == <<noiseVars, phVars, fnVars>>

(***************************************************************************)
(* Bounds of the model                                                     *)
(***************************************************************************)
MaxSeed == 2
MaxShots == 4
MaxAngle == 38
NumQ == 2
MaxLen == 2
MaxIndex == 0

(***************************************************************************)
(* Constants of the notebooks                                              *)
(***************************************************************************)
pi == 38
NumThetas == 20
NumT1s == 3
NumShots == 1000
MemorySize == 2
RegisterSize == 8

halfpi == pi \div 2

\* np.linspace(-pi, pi, num=20)
thetas == [n \in 1..NumThetas |-> (0 - pi) + (n - 1) * ((2 * pi) \div (NumThetas - 1))]

\* np.logspace(-6, -5, num=3), in picoseconds
t1s == <<1000000, 3162278, 10000000>>

(***************************************************************************)
(* Programs of the library: qubits, instructions, programs                 *)
(***************************************************************************)
Qubit(n) == [placeholder |-> FALSE, ix |-> n]
QubitPlaceholder(n) == [placeholder |-> TRUE, ix |-> n]

Gate(name, params, qubits) ==
    [kind |-> "GATE", name |-> name, params |-> params, qubits |-> qubits,
     region |-> "", offset |-> 0]

RZ(angle, q) == Gate("RZ", <<angle>>, <<Qubit(q)>>)
RX(angle, q) == Gate("RX", <<angle>>, <<Qubit(q)>>)
CZ(c, t) == Gate("CZ", <<>>, <<Qubit(c), Qubit(t)>>)

MemoryReference(name, off) == [name |-> name, offset |-> off]

MEASURE(q, ref) ==
    [kind |-> "MEASURE", name |-> "MEASURE", params |-> <<>>, qubits |-> <<Qubit(q)>>,
     region |-> ref.name, offset |-> ref.offset]

Declare(name, size) ==
    [kind |-> "DECLARE", name |-> name, params |-> <<size>>, qubits |-> <<>>,
     region |-> name, offset |-> 0]

Pragma(name, params) ==
    [kind |-> "PRAGMA", name |-> name, params |-> params, qubits |-> <<>>,
     region |-> "", offset |-> 0]

Program(instrs) == [instructions |-> instrs, num_shots |-> 1]

NoProgram == Program(<<>>)

\* Program.inst: appends the instructions to the program
inst(p, instrs) == [p EXCEPT !.instructions = @ \o instrs]

\* Program.declare: appends the declaration of a memory region
declare(p, name, size) == inst(p, <<Declare(name, size)>>)

\* Program.wrap_in_numshots_loop
wrap_in_numshots_loop(p, shots) == [p EXCEPT !.num_shots = shots]

\* noise: RX and CZ experience gate noise, I and RZ are noiseless
NoisyGate(g) ==
    IF g.kind = "GATE" /\ g.name \in {"RX", "CZ"}
    THEN [g EXCEPT !.name = IF g.name = "RX" THEN "NOISY-RX" ELSE "NOISY-CZ"]
    ELSE g

\* add_decoherence_noise: a new program, the noise model's header followed
\* by the instructions of prog with the noisy gates in place of the gates
add_decoherence_noise(p, T1, T2) ==
    Program(<<Pragma("DECOHERENCE", <<T1, T2>>)>>
            \o [n \in 1..Len(p.instructions) |-> NoisyGate(p.instructions[n])])

(***************************************************************************)
(* The simulator: qc.run answers one row per shot, one bit per cell of the *)
(* memory region read out; the bits follow from the simulator's random     *)
(* state, the number of the call and the number of the shot.               *)
(***************************************************************************)
MemoryCells(p) ==
    LET ds == {n \in 1..Len(p.instructions) : p.instructions[n].kind = "DECLARE"}
    IN  IF ds = {} THEN 0
        ELSE p.instructions[CHOOSE n \in ds : \A m \in ds : n <= m].params[1]

Measured(p, cell) ==
    \E n \in 1..Len(p.instructions) :
        /\ p.instructions[n].kind = "MEASURE"
        /\ p.instructions[n].offset = cell

Sample(s, call, shot, cell) ==
    LET v == (s * shot + call + s + (s \div 2) * (shot \div 3)) % 4
    IN  IF cell = 0 THEN v \div 2 ELSE v % 2

qc_run(p, s, call) ==
    [shot \in 1..p.num_shots |->
        [c \in 1..MemoryCells(p) |->
            IF Measured(p, c - 1) THEN Sample(s, call, shot, c - 1) ELSE 0]]

(***************************************************************************)
(* NoiseInvestigation.ipynb: the compiled program                          *)
(***************************************************************************)
\* a bug: the eighth gate rotates by theta about X in place of Z
get_compiled_prog_rx(theta) ==
    Program(<<
        RZ(0 - halfpi, 0),
        RX(0 - halfpi, 0),
        RZ(0 - halfpi, 1),
        RX(halfpi, 1),
        CZ(1, 0),
        RZ(0 - halfpi, 1),
        RX(0 - halfpi, 1),
        RX(theta, 1),
        RX(halfpi, 1),
        CZ(1, 0),
        RX(halfpi, 0),
        RZ(halfpi, 0),
        RZ(0 - halfpi, 1),
        RX(halfpi, 1),
        RZ(0 - halfpi, 1)
    >>)

get_compiled_prog(theta) ==
    Program(<<
        RZ(0 - halfpi, 0),
        RX(0 - halfpi, 0),
        RZ(0 - halfpi, 1),
        RX(halfpi, 1),
        CZ(1, 0),
        RZ(0 - halfpi, 1),
        RX(0 - halfpi, 1),
        RZ(theta, 1),
        RX(halfpi, 1),
        CZ(1, 0),
        RX(halfpi, 0),
        RZ(halfpi, 0),
        RZ(0 - halfpi, 1),
        RX(halfpi, 1),
        RZ(0 - halfpi, 1)
    >>)

(***************************************************************************)
(* NoiseInvestigation.ipynb: the aggregation of the bitstrings             *)
(***************************************************************************)
Frac(n, d) == [num |-> n, den |-> d]

\* np.sum(bitstrings, axis=0)[col]: the sum of counts from 0 to MemorySize
\* is the number of the units they are made of
ColumnSum(b, col) ==
    Cardinality({ru \in (1..Len(b)) \X (1..MemorySize) : ru[2] <= b[ru[1]][col]})

\* np.mean(bitstrings, axis=0)[col]: the sum over the number of rows
ColumnMean(b, col) == Frac(ColumnSum(b, col), Len(b))

\* 1 - 2 * m
OneMinusTwice(m) == Frac(m.den - 2 * m.num, m.den)

\* np.sum(bitstrings, axis=1)[r]
RowSum(b, r) == b[r][1] + b[r][2]

\* a bug: the parity is taken without the % 2
RowParityNoMod(b, r) == RowSum(b, r)

\* (np.sum(bitstrings, axis=1) % 2)[r]
RowParity(b, r) == RowSum(b, r) % 2

Z0(b) == OneMinusTwice(ColumnMean(b, 1))
Z1(b) == OneMinusTwice(ColumnMean(b, 2))
\* (...).mean(): the sum of the parities over their number
ParityMean(b) ==
    Frac(Cardinality({ru \in (1..Len(b)) \X (1..MemorySize) :
                         ru[2] <= RowParity(b, ru[1])}),
         Len(b))

ZZ(b) == OneMinusTwice(ParityMean(b))

Expectations(b) == [z0 |-> Z0(b), z1 |-> Z1(b), zz |-> ZZ(b)]

NoZ == [z0 |-> Frac(0, 1), z1 |-> Frac(0, 1), zz |-> Frac(0, 1)]

Record(zs, theta, t1) ==
    [z0 |-> zs.z0, z1 |-> zs.z1, zz |-> zs.zz, theta |-> theta, t1 |-> t1]

(***************************************************************************)
(* NoiseInvestigation.ipynb: the scan loop                                 *)
(***************************************************************************)
\* the scan's variables before the loops
ScanStart ==
    /\ pc = "get_compiled_prog"
    /\ i = 1
    /\ j = 1
    /\ prog = NoProgram
    /\ noisy = NoProgram
    /\ bitstrings = <<>>
    /\ z = NoZ
    /\ records = <<>>
    /\ outstanding = <<>>
    /\ calls = 0
    /\ k = 1
    /\ dfs = <<>>
    /\ ax1 = <<>>
    /\ ax2 = <<>>
    /\ ax3 = <<>>

\* the other notebook is not run
PlaceholderIdle ==
    /\ nb = "idle"
    /\ ph_prog = NoProgram
    /\ qubit_mapping = <<>>
    /\ printed = <<>>

\* no separate call of get_compiled_prog is made
CallsIdle ==
    /\ args = <<>>
    /\ compiled = <<>>

InitNoise ==
    /\ ScanStart
    /\ seed \in 0..MaxSeed
    /\ PlaceholderIdle
    /\ CallsIdle

\* a bug: the inner loop stops one short of the end of t1s
NextPointShort(a, b) == IF b < NumT1s - 1 THEN <<a, b + 1>> ELSE <<a + 1, 1>>

\* the loop's next position: the inner loop over t1s, then the next theta
NextPoint(a, b) == IF b < NumT1s THEN <<a, b + 1>> ELSE <<a + 1, 1>>

\* T2=t1/2
HalfOf(t1) == t1 \div 2

\* a bug: the program is built once, before the loops, and used again
GetCompiledProgHoisted ==
    /\ pc = "get_compiled_prog"
    /\ prog' = IF calls = 0 THEN get_compiled_prog(thetas[i]) ELSE prog
    /\ pc' = "declare"
    /\ UNCHANGED <<i, j, noisy, bitstrings, z, records, outstanding, calls, seed,
                   k, dfs, ax1, ax2, ax3>>
    /\ UNCHANGED <<phVars, fnVars>>

\* prog = get_compiled_prog(theta)
GetCompiledProg ==
    /\ pc = "get_compiled_prog"
    /\ prog' = get_compiled_prog(thetas[i])
    /\ pc' = "declare"
    /\ UNCHANGED <<i, j, noisy, bitstrings, z, records, outstanding, calls, seed,
                   k, dfs, ax1, ax2, ax3>>
    /\ UNCHANGED <<phVars, fnVars>>

\* ro = prog.declare("ro", memory_size=2)
DeclareRo ==
    /\ pc = "declare"
    /\ prog' = declare(prog, "ro", MemorySize)
    /\ pc' = "add_noise"
    /\ UNCHANGED <<i, j, noisy, bitstrings, z, records, outstanding, calls, seed,
                   k, dfs, ax1, ax2, ax3>>
    /\ UNCHANGED <<phVars, fnVars>>

\* noisy = add_decoherence_noise(prog, T1=t1, T2=t1/2).inst([MEASURE, MEASURE])
AddNoise ==
    /\ pc = "add_noise"
    /\ noisy' = inst(add_decoherence_noise(prog, t1s[j], HalfOf(t1s[j])),
                     <<MEASURE(0, MemoryReference("ro", 0)),
                       MEASURE(1, MemoryReference("ro", 1))>>)
    /\ pc' = "run"
    /\ UNCHANGED <<i, j, prog, bitstrings, z, records, outstanding, calls, seed,
                   k, dfs, ax1, ax2, ax3>>
    /\ UNCHANGED <<phVars, fnVars>>

\* a bug: the call is issued and the loops go on without its result
RunCallAsync ==
    /\ pc = "run"
    /\ noisy' = wrap_in_numshots_loop(noisy, NumShots)
    /\ outstanding' = Append(outstanding, noisy')
    /\ calls' = calls + 1
    /\ i' = NextPoint(i, j)[1]
    /\ j' = NextPoint(i, j)[2]
    /\ pc' = IF i' <= NumThetas /\ j' <= NumT1s THEN "get_compiled_prog" ELSE "plot"
    /\ UNCHANGED <<prog, bitstrings, z, records, seed, k, dfs, ax1, ax2, ax3>>
    /\ UNCHANGED <<phVars, fnVars>>

\* qc.run(noisy.wrap_in_numshots_loop(1000)): the call is issued
RunCall ==
    /\ pc = "run"
    /\ noisy' = wrap_in_numshots_loop(noisy, NumShots)
    /\ outstanding' = Append(outstanding, noisy')
    /\ calls' = calls + 1
    /\ pc' = "wait"
    /\ UNCHANGED <<i, j, prog, bitstrings, z, records, seed, k, dfs, ax1, ax2, ax3>>
    /\ UNCHANGED <<phVars, fnVars>>

\* bitstrings = np.array(qc.run(...)): the call returns
RunReturn ==
    /\ pc = "wait"
    /\ outstanding # <<>>
    /\ bitstrings' = qc_run(Head(outstanding), seed, calls)
    /\ outstanding' = Tail(outstanding)
    /\ pc' = "aggregate"
    /\ UNCHANGED <<i, j, prog, noisy, z, records, calls, seed, k, dfs, ax1, ax2, ax3>>
    /\ UNCHANGED <<phVars, fnVars>>

\* z0, z1 = ...; zz = ...
Aggregate ==
    /\ pc = "aggregate"
    /\ z' = Expectations(bitstrings)
    /\ pc' = "record"
    /\ UNCHANGED <<i, j, prog, noisy, bitstrings, records, outstanding, calls, seed,
                   k, dfs, ax1, ax2, ax3>>
    /\ UNCHANGED <<phVars, fnVars>>

\* record = {...}; records += [record]; the loops go on to the next point
AppendRecord ==
    /\ pc = "record"
    /\ records' = records \o <<Record(z, thetas[i], t1s[j])>>
    /\ i' = NextPoint(i, j)[1]
    /\ j' = NextPoint(i, j)[2]
    /\ pc' = IF i' <= NumThetas /\ j' <= NumT1s THEN "get_compiled_prog" ELSE "plot"
    /\ UNCHANGED <<prog, noisy, bitstrings, z, outstanding, calls, seed,
                   k, dfs, ax1, ax2, ax3>>
    /\ UNCHANGED <<phVars, fnVars>>

(***************************************************************************)
(* NoiseInvestigation.ipynb: the plot loop                                 *)
(***************************************************************************)
\* pd.DataFrame(records): the rows with their index
DataFrame(recs) == [n \in 1..Len(recs) |-> [index |-> n - 1, row |-> recs[n]]]

\* a bug: the query selects with <= in place of ==
QueryT1AtMost(df, t1) == SelectSeq(df, LAMBDA r : r.row.t1 <= t1)

\* df_all.query('t1 == @t1'): the rows that satisfy it, in their order
QueryT1(df, t1) == SelectSeq(df, LAMBDA r : r.row.t1 = t1)

\* the line drawn by ax.plot(df['theta'], df[col], 'o-')
Line(df, col) ==
    [n \in 1..Len(df) |->
        [x |-> df[n].row.theta,
         y |-> IF col = "z0" THEN df[n].row.z0
               ELSE IF col = "z1" THEN df[n].row.z1 ELSE df[n].row.zz]]

PlotSeries ==
    /\ pc = "plot"
    /\ k <= NumT1s
    /\ LET df == QueryT1(DataFrame(records), t1s[k])
       IN  /\ dfs' = Append(dfs, df)
           /\ ax1' = Append(ax1, Line(df, "z0"))
           /\ ax2' = Append(ax2, Line(df, "z1"))
           /\ ax3' = Append(ax3, Line(df, "zz"))
    /\ k' = k + 1
    /\ pc' = IF k' <= NumT1s THEN "plot" ELSE "done"
    /\ UNCHANGED <<i, j, prog, noisy, bitstrings, z, records, outstanding, calls, seed>>
    /\ UNCHANGED <<phVars, fnVars>>

NextNoise ==
    \/ GetCompiledProg
    \/ DeclareRo
    \/ AddNoise
    \/ RunCall
    \/ RunReturn
    \/ Aggregate
    \/ AppendRecord
    \/ PlotSeries

SpecNoise == InitNoise /\ [][NextNoise]_vars

SpecNoiseFair == InitNoise /\ [][NextNoise]_vars /\ WF_vars(NextNoise)

(***************************************************************************)
(* The aggregation applied to every array of at most MaxShots rows         *)
(***************************************************************************)
BitArrays == UNION {[1..n -> [1..MemorySize -> {0, 1}]] : n \in 1..MaxShots}

InitAggregate ==
    /\ pc = "aggregate"
    /\ i = 1
    /\ j = 1
    /\ prog = NoProgram
    /\ noisy = NoProgram
    /\ bitstrings \in BitArrays
    /\ z = NoZ
    /\ records = <<>>
    /\ outstanding = <<>>
    /\ calls = 1
    /\ seed = 0
    /\ k = 1
    /\ dfs = <<>>
    /\ ax1 = <<>>
    /\ ax2 = <<>>
    /\ ax3 = <<>>
    /\ PlaceholderIdle
    /\ CallsIdle

NextAggregate == Aggregate

SpecAggregate == InitAggregate /\ [][NextAggregate]_vars

(***************************************************************************)
(* get_compiled_prog applied to every pair of angles up to MaxAngle        *)
(***************************************************************************)
Angles == (0 - MaxAngle)..MaxAngle

InitCompiled ==
    /\ ScanStart
    /\ seed = 0
    /\ PlaceholderIdle
    /\ args \in Angles \X Angles
    /\ compiled = <<>>

\* a call get_compiled_prog(theta) with the next argument
CallGetCompiledProg ==
    /\ Len(compiled) < Len(args)
    /\ compiled' = Append(compiled, get_compiled_prog(args[Len(compiled) + 1]))
    /\ UNCHANGED <<args, noiseVars, phVars>>

NextCompiled == CallGetCompiledProg

SpecCompiled == InitCompiled /\ [][NextCompiled]_vars

(***************************************************************************)
(* The library: text of a program, addressing of placeholders              *)
(***************************************************************************)
H(q) == Gate("H", <<>>, <<q>>)
CNOT(c, t) == Gate("CNOT", <<>>, <<c, t>>)

\* the qubits of a program, in the order they are encountered
RECURSIVE Occurrences(_, _)
Occurrences(p, n) ==
    IF n = 0 THEN <<>> ELSE Occurrences(p, n - 1) \o p.instructions[n].qubits

\* the distinct values of s[1..n], each at its first place
RECURSIVE Unique(_, _)
Unique(s, n) ==
    IF n = 0 THEN <<>>
    ELSE LET u == Unique(s, n - 1)
         IN  IF \E m \in 1..Len(u) : u[m] = s[n] THEN u ELSE Append(u, s[n])

\* the placeholders of a program, in the order they are encountered
PlaceholdersOf(p) ==
    LET occ == Occurrences(p, Len(p.instructions))
    IN  SelectSeq(Unique(occ, Len(occ)), LAMBDA q : q.placeholder)

\* str(program): a line for each instruction, its name and its qubits
Str(p) ==
    [n \in 1..Len(p.instructions) |->
        [op |-> p.instructions[n].name, args |-> p.instructions[n].qubits]]

\* Program.out(): the text of the program; a placeholder has no index to
\* write and raises RuntimeError
out(p) ==
    LET ph == PlaceholdersOf(p)
    IN  IF ph # <<>>
        THEN [raised |-> TRUE, lines |-> <<>>, subject |-> <<Head(ph)>>]
        ELSE [raised |-> FALSE, lines |-> Str(p), subject |-> <<>>]

\* the default mapping: the placeholders numbered from 0 in the order they
\* are encountered (a function of the placeholders' identities)
DefaultMapping(p) ==
    LET ph == PlaceholdersOf(p)
    IN  [q \in {ph[m].ix : m \in 1..Len(ph)} |->
            (CHOOSE m \in 1..Len(ph) : ph[m].ix = q) - 1]

AddressQubit(q, m) == IF q.placeholder THEN Qubit(m[q.ix]) ELSE q

\* address_qubits(program, qubit_mapping): a new program, the instructions
\* of program with its placeholders replaced by the mapping's qubits
address_qubits(p, m) ==
    [p EXCEPT !.instructions =
        [n \in 1..Len(p.instructions) |->
            [p.instructions[n] EXCEPT !.qubits =
                [x \in 1..Len(p.instructions[n].qubits) |->
                    AddressQubit(p.instructions[n].qubits[x], m)]]]]

\* QubitPlaceholder.register(n): n new placeholders
register(n, first) == [x \in 1..n |-> QubitPlaceholder(first + x - 1)]

(***************************************************************************)
(* QubitPlaceholder.ipynb                                                  *)
(***************************************************************************)
PlaceholderIds == 0..(NumQ - 1)

PlaceholderGates ==
    {H(QubitPlaceholder(q)) : q \in PlaceholderIds}
    \cup {CNOT(QubitPlaceholder(ct[1]), QubitPlaceholder(ct[2])) :
            ct \in {x \in PlaceholderIds \X PlaceholderIds : x[1] # x[2]}}

\* prog = Program(H(q0), CNOT(q0, q1)), q0 and q1 the first two placeholders
NotebookProg == Program(<<H(QubitPlaceholder(0)),
                          CNOT(QubitPlaceholder(0), QubitPlaceholder(1))>>)

\* qubit_mapping={q0: 14, q1: 19}
NotebookMapping == [q \in {0, 1} |-> IF q = 0 THEN 14 ELSE 19]

\* the programs over placeholders of at most MaxLen gates
PlaceholderPrograms ==
    {Program(g) : g \in UNION {[1..n -> PlaceholderGates] : n \in 0..MaxLen}}

Indices == (0..MaxIndex) \cup {14, 19}

Mappings == [PlaceholderIds -> Indices] \cup {NotebookMapping}

Covers(m, p) ==
    \A n \in 1..Len(PlaceholdersOf(p)) : PlaceholdersOf(p)[n].ix \in DOMAIN m

Entry(cell, err, lines, subject) ==
    [cell |-> cell, error |-> err, lines |-> lines, subject |-> subject]

ScanIdle ==
    /\ pc = "idle"
    /\ i = 1
    /\ j = 1
    /\ prog = NoProgram
    /\ noisy = NoProgram
    /\ bitstrings = <<>>
    /\ z = NoZ
    /\ records = <<>>
    /\ outstanding = <<>>
    /\ calls = 0
    /\ seed = 0
    /\ k = 1
    /\ dfs = <<>>
    /\ ax1 = <<>>
    /\ ax2 = <<>>
    /\ ax3 = <<>>

InitPlaceholder ==
    /\ nb = "integers"
    /\ ph_prog = NoProgram
    /\ qubit_mapping = <<>>
    /\ printed = <<>>
    /\ ScanIdle
    /\ CallsIdle

\* print(Program(H(0), CNOT(0, 1)))
PrintIntegerProgram ==
    /\ nb = "integers"
    /\ printed' = Append(printed,
          Entry("integers", FALSE, Str(Program(<<H(Qubit(0)), CNOT(Qubit(0), Qubit(1))>>)), <<>>))
    /\ nb' = "build"
    /\ UNCHANGED <<ph_prog, qubit_mapping, noiseVars, fnVars>>

\* q0 = QubitPlaceholder(); ...; prog = Program(...); print(prog)
\* for any program over placeholders, and any mapping to use later
BuildProg ==
    /\ nb = "build"
    /\ \E p \in PlaceholderPrograms : \E m \in Mappings :
          /\ Covers(m, p)
          /\ ph_prog' = p
          /\ qubit_mapping' = m
          /\ printed' = Append(printed, Entry("build", FALSE, Str(p), <<>>))
    /\ nb' = "try_out"
    /\ UNCHANGED <<noiseVars, fnVars>>

\* a bug: the error of prog.out() is not caught, and the run stops
TryOutUncaught ==
    /\ nb = "try_out"
    /\ LET r == out(ph_prog)
       IN  IF r.raised
           THEN nb' = "aborted" /\ printed' = printed
           ELSE /\ printed' = Append(printed, Entry("try_out", FALSE, r.lines, <<>>))
                /\ nb' = "address_default"
    /\ UNCHANGED <<ph_prog, qubit_mapping, noiseVars, fnVars>>

\* try: print(prog.out())  except RuntimeError as e: print(e)
TryOut ==
    /\ nb = "try_out"
    /\ LET r == out(ph_prog)
       IN  printed' = Append(printed, Entry("try_out", r.raised, r.lines, r.subject))
    /\ nb' = "address_default"
    /\ UNCHANGED <<ph_prog, qubit_mapping, noiseVars, fnVars>>

\* a bug: the cell passes the explicit mapping of the later cell
AddressDefaultWithMapping ==
    /\ nb = "address_default"
    /\ printed' = Append(printed,
          Entry("address_default", FALSE, Str(address_qubits(ph_prog, qubit_mapping)), <<>>))
    /\ nb' = "address_explicit"
    /\ UNCHANGED <<ph_prog, qubit_mapping, noiseVars, fnVars>>

\* a bug: the cell assigns the addressed program to prog
AddressDefaultInPlace ==
    /\ nb = "address_default"
    /\ ph_prog' = address_qubits(ph_prog, DefaultMapping(ph_prog))
    /\ printed' = Append(printed, Entry("address_default", FALSE, Str(ph_prog'), <<>>))
    /\ nb' = "address_explicit"
    /\ UNCHANGED <<qubit_mapping, noiseVars, fnVars>>

\* print(address_qubits(prog))
AddressDefault ==
    /\ nb = "address_default"
    /\ printed' = Append(printed,
          Entry("address_default", FALSE,
                Str(address_qubits(ph_prog, DefaultMapping(ph_prog))), <<>>))
    /\ nb' = "address_explicit"
    /\ UNCHANGED <<ph_prog, qubit_mapping, noiseVars, fnVars>>

\* a bug: the cell leaves the mapping out of the call
AddressExplicitNoMapping ==
    /\ nb = "address_explicit"
    /\ printed' = Append(printed,
          Entry("address_explicit", FALSE,
                Str(address_qubits(ph_prog, DefaultMapping(ph_prog))), <<>>))
    /\ nb' = "register"
    /\ UNCHANGED <<ph_prog, qubit_mapping, noiseVars, fnVars>>

\* print(address_qubits(prog, qubit_mapping={...}))
AddressExplicit ==
    /\ nb = "address_explicit"
    /\ printed' = Append(printed,
          Entry("address_explicit", FALSE, Str(address_qubits(ph_prog, qubit_mapping)), <<>>))
    /\ nb' = "register"
    /\ UNCHANGED <<ph_prog, qubit_mapping, noiseVars, fnVars>>

\* qbyte = QubitPlaceholder.register(8); prog2 = Program(H(q) for q in qbyte)
\* print(address_qubits(prog2, {q: i*2 for i, q in enumerate(qbyte)}))
RegisterCell ==
    /\ nb = "register"
    /\ LET qbyte == register(RegisterSize, NumQ)
           prog2 == Program([x \in 1..Len(qbyte) |-> H(qbyte[x])])
           mapping == [q \in {qbyte[x].ix : x \in 1..Len(qbyte)} |->
                          ((CHOOSE x \in 1..Len(qbyte) : qbyte[x].ix = q) - 1) * 2]
       IN  printed' = Append(printed,
              Entry("register", FALSE, Str(address_qubits(prog2, mapping)), <<>>))
    /\ nb' = "done"
    /\ UNCHANGED <<ph_prog, qubit_mapping, noiseVars, fnVars>>

NextPlaceholder ==
    \/ PrintIntegerProgram
    \/ BuildProg
    \/ TryOut
    \/ AddressDefault
    \/ AddressExplicit
    \/ RegisterCell

SpecPlaceholder == InitPlaceholder /\ [][NextPlaceholder]_vars

(***************************************************************************)
(* Properties of the scan (NoiseInvestigation.ipynb)                       *)
(***************************************************************************)
GridSize == NumThetas * NumT1s

ScanFinished == pc \in {"plot", "done"}

\* the grid point of the n-th iteration, in theta-major order
ThetaOf(n) == thetas[((n - 1) \div NumT1s) + 1]
T1Of(n) == t1s[((n - 1) % NumT1s) + 1]

\* C1: the scan visits every point of the grid exactly once. Every record
\* appended so far carries the theta and the t1 of the iteration that made
\* it, in theta-major order; when the loops have finished, records holds
\* exactly 60 records, exactly one for each pair (theta, t1).
C1_GridVisitedOnce ==
    /\ Len(records) <= GridSize
    /\ \A n \in 1..Len(records) :
          records[n].theta = ThetaOf(n) /\ records[n].t1 = T1Of(n)
    /\ ScanFinished =>
          /\ Len(records) = 60
          /\ \A a \in 1..NumThetas : \A b \in 1..NumT1s :
                /\ Cardinality({n \in 1..Len(records) :
                      records[n].theta = thetas[a] /\ records[n].t1 = t1s[b]}) = 1
                /\ records[(a - 1) * NumT1s + b].theta = thetas[a]
                /\ records[(a - 1) * NumT1s + b].t1 = t1s[b]

C1_Witness == pc = "plot" /\ k = 1 /\ i > NumThetas /\ records # <<>>

\* C2: the sweep is sequential and blocking. At most one call of qc.run is
\* outstanding at any moment; a call is issued only when no call is
\* outstanding and the records of all earlier calls have been appended; and,
\* every call returning, the sweep ends after exactly 60 calls.
C2_SequentialBlocking ==
    /\ [](Len(outstanding) <= 1)
    /\ [][calls' # calls =>
            /\ calls' = calls + 1
            /\ outstanding = <<>>
            /\ Len(records) = calls]_vars
    /\ <>[](ScanFinished /\ calls = 60 /\ outstanding = <<>>)

C2_Witness == pc = "wait" /\ Len(outstanding) = 1 /\ calls = 60 /\ Len(records) = 59

\* the positions of the instructions of a kind in a program
Positions(p, kind) == {n \in 1..Len(p.instructions) : p.instructions[n].kind = kind}

\* C8: nothing accumulates across the iterations. Every program sent to the
\* simulator holds exactly one declaration, of the 2-cell region ro, the 15
\* gates of the compiled program, and exactly two measurements, MEASURE 0
\* ro[0] then MEASURE 1 ro[1], after all the gates; its noise has T1 = t1
\* and T2 = T1/2 of the iteration, and it asks for 1000 shots.
C8_FreshProgramEachIteration ==
    \A n \in 1..Len(outstanding) :
        LET p == outstanding[n]
            len == Len(p.instructions)
            pragmas == Positions(p, "PRAGMA")
        IN  /\ Cardinality(Positions(p, "DECLARE")) = 1
            /\ \A d \in Positions(p, "DECLARE") :
                  p.instructions[d] = Declare("ro", 2)
            /\ Cardinality(Positions(p, "GATE")) = 15
            /\ Positions(p, "MEASURE") = {len - 1, len}
            /\ \A g \in Positions(p, "GATE") : g < len - 1
            /\ p.instructions[len - 1] = MEASURE(0, MemoryReference("ro", 0))
            /\ p.instructions[len] = MEASURE(1, MemoryReference("ro", 1))
            /\ Cardinality(pragmas) = 1
            /\ \A q \in pragmas :
                  /\ p.instructions[q].params[1] = t1s[j]
                  /\ 2 * p.instructions[q].params[2] = t1s[j]
            /\ p.num_shots = 1000

C8_Witness == pc = "wait" /\ Len(outstanding) = 1 /\ calls = GridSize

\* the indexes of the rows of a selection
Indexes(df) == {df[n].index : n \in 1..Len(df)}

\* the number of points of the lines of an axis drawn from row n of records
\* (the p-th row of the s-th selection gives the p-th point of the s-th line)
PlottedOn(ax, col, n) ==
    Cardinality({sp \in {<<s, p>> : s \in 1..Len(dfs), p \in 1..NumThetas} :
        /\ sp[2] <= Len(dfs[sp[1]])
        /\ dfs[sp[1]][sp[2]].index = n - 1
        /\ sp[1] <= Len(ax) /\ sp[2] <= Len(ax[sp[1]])
        /\ ax[sp[1]][sp[2]].x = records[n].theta
        /\ ax[sp[1]][sp[2]].y = (IF col = "z0" THEN records[n].z0
                                 ELSE IF col = "z1" THEN records[n].z1
                                 ELSE records[n].zz)})

\* C10: the plot loop partitions the records by noise level. The three
\* selections are pairwise disjoint and cover all 60 records; each holds 20
\* records of one t1, one for each theta, in increasing order of theta; each
\* axis shows three lines of 20 points and every record is drawn exactly
\* once on each axis.
C10_PlotPartition ==
    pc = "done" =>
        /\ Len(dfs) = 3
        /\ \A s \in 1..Len(dfs) : \A t \in 1..Len(dfs) :
              s # t => Indexes(dfs[s]) \cap Indexes(dfs[t]) = {}
        /\ UNION {Indexes(dfs[s]) : s \in 1..Len(dfs)} = 0..59
        /\ \A s \in 1..Len(dfs) :
              /\ Len(dfs[s]) = 20
              /\ Cardinality(Indexes(dfs[s])) = 20
              /\ \A p \in 1..Len(dfs[s]) :
                    /\ dfs[s][p].row.t1 = t1s[s]
                    /\ dfs[s][p].row.theta = thetas[p]
                    /\ dfs[s][p].row = records[dfs[s][p].index + 1]
              /\ \A p \in 1..(Len(dfs[s]) - 1) :
                    dfs[s][p].row.theta < dfs[s][p + 1].row.theta
        /\ \A ax \in {ax1, ax2, ax3} :
              /\ Len(ax) = 3
              /\ \A s \in 1..Len(ax) : Len(ax[s]) = 20
        /\ \A n \in 1..Len(records) :
              /\ PlottedOn(ax1, "z0", n) = 1
              /\ PlottedOn(ax2, "z1", n) = 1
              /\ PlottedOn(ax3, "zz", n) = 1

C10_Witness == pc = "done" /\ Len(dfs) = NumT1s /\ Len(records) = GridSize

(***************************************************************************)
(* Properties of get_compiled_prog and of the aggregation                  *)
(***************************************************************************)
\* a gate of the native gate set: RZ of any angle, RX of +-pi/2, CZ
NativeGate(g) ==
    /\ g.kind = "GATE"
    /\ \/ g.name = "RZ" /\ Len(g.params) = 1
       \/ g.name = "RX" /\ g.params \in {<<halfpi>>, <<0 - halfpi>>}
       \/ g.name = "CZ" /\ g.params = <<>>

\* C6: for every theta, get_compiled_prog(theta) is a sequence of 15 gates
\* on the qubits 0 and 1, all of the native gate set; its eighth gate is
\* RZ(theta, 1); two calls agree on every gate but the eighth, and differ
\* there when their thetas differ.
C6_CompiledProgram ==
    /\ \A n \in 1..Len(compiled) :
          LET g == compiled[n].instructions
          IN  /\ Len(g) = 15
              /\ \A m \in 1..Len(g) :
                    /\ NativeGate(g[m])
                    /\ \A x \in 1..Len(g[m].qubits) :
                          g[m].qubits[x] \in {Qubit(0), Qubit(1)}
              /\ g[8] = RZ(args[n], 1)
    /\ Len(compiled) = 2 =>
          /\ \A m \in (1..15) \ {8} :
                compiled[1].instructions[m] = compiled[2].instructions[m]
          /\ (args[1] # args[2]) =>
                compiled[1].instructions[8] # compiled[2].instructions[8]
          /\ (args[1] # args[2]) => compiled[1] # compiled[2]

C6_Witness == Len(compiled) = 2 /\ args[1] # args[2] /\ args[1] = halfpi

\* the sum of the values f[lo..hi]
RECURSIVE SumRange(_, _, _)
SumRange(f, lo, hi) ==
    IF lo > hi THEN 0
    ELSE IF lo = hi THEN f[lo]
    ELSE LET mid == (lo + hi) \div 2
         IN  SumRange(f, lo, mid) + SumRange(f, mid + 1, hi)

Sum(f) == SumRange(f, 1, Len(f))

\* x = 1 - 2 * c / n, for a fraction x
IsOneMinusTwice(x, c, n) == x.den > 0 /\ x.num * n = (n - 2 * c) * x.den

\* n * x = s, for a fraction x
TimesIs(n, x, s) == x.den > 0 /\ n * x.num = s * x.den

\* -1 <= x <= 1, for a fraction x
InUnitRange(x) == x.den > 0 /\ 0 - x.den <= x.num /\ x.num <= x.den

\* C7: for every array of N rows of two bits, z0 = 1 - 2*(ones of column
\* 0)/N, z1 = 1 - 2*(ones of column 1)/N, zz = 1 - 2*(rows of odd
\* parity)/N; N*z0, N*z1 and N*zz are the sums over the rows of (1-2*b0),
\* (1-2*b1) and (1-2*b0)*(1-2*b1); and each value lies in [-1, 1].
C7_Expectations ==
    pc = "record" =>
        LET b == bitstrings
            N == Len(b)
            ones0 == Cardinality({r \in 1..N : b[r][1] = 1})
            ones1 == Cardinality({r \in 1..N : b[r][2] = 1})
            odd == Cardinality({r \in 1..N : b[r] \in {<<0, 1>>, <<1, 0>>}})
            e0 == [r \in 1..N |-> 1 - 2 * b[r][1]]
            e1 == [r \in 1..N |-> 1 - 2 * b[r][2]]
            e01 == [r \in 1..N |-> e0[r] * e1[r]]
        IN  /\ IsOneMinusTwice(z.z0, ones0, N)
            /\ IsOneMinusTwice(z.z1, ones1, N)
            /\ IsOneMinusTwice(z.zz, odd, N)
            /\ TimesIs(N, z.z0, Sum(e0))
            /\ TimesIs(N, z.z1, Sum(e1))
            /\ TimesIs(N, z.zz, Sum(e01))
            /\ InUnitRange(z.z0) /\ InUnitRange(z.z1) /\ InUnitRange(z.zz)

C7_Witness ==
    /\ pc = "record"
    /\ Len(bitstrings) >= 3
    /\ \E r \in 1..Len(bitstrings) : bitstrings[r] = <<1, 1>>
    /\ \E r \in 1..Len(bitstrings) : bitstrings[r] = <<0, 1>>
    /\ z.zz.num < z.z0.num

(***************************************************************************)
(* Properties of QubitPlaceholder.ipynb                                    *)
(***************************************************************************)
\* the places in printed of what a cell printed
PrintedBy(cell) == {n \in 1..Len(printed) : printed[n].cell = cell}

\* the cells that have run when the notebook is at a cell
Ran(cell) ==
    CASE cell = "build" ->
            nb \in {"try_out", "address_default", "address_explicit", "register", "done"}
      [] cell = "try_out" ->
            nb \in {"address_default", "address_explicit", "register", "done"}
      [] cell = "address_default" -> nb \in {"address_explicit", "register", "done"}
      [] cell = "address_explicit" -> nb \in {"register", "done"}
      [] cell = "register" -> nb = "done"

HasPlaceholders(p) ==
    \E n \in 1..Len(p.instructions) : \E x \in 1..Len(p.instructions[n].qubits) :
        p.instructions[n].qubits[x].placeholder

\* a text whose qubits all are indices
Addressed(lines) ==
    \A n \in 1..Len(lines) : \A x \in 1..Len(lines[n].args) :
        ~lines[n].args[x].placeholder

\* the program is the one the cell that built it printed
ProgAsBuilt == \A n \in PrintedBy("build") : printed[n].lines = Str(ph_prog)

\* C3: prog.out() of a program with placeholders raises RuntimeError and
\* gives no text; the cell prints the error's message and the notebook goes
\* on; the program is as before the call; and the later cells address the
\* same program, every qubit of their output an index.
C3_UnaddressedOutFails ==
    /\ nb # "aborted"
    /\ (Ran("try_out") /\ HasPlaceholders(ph_prog)) =>
          /\ Cardinality(PrintedBy("try_out")) = 1
          /\ \A n \in PrintedBy("try_out") :
                /\ printed[n].error
                /\ printed[n].lines = <<>>
                /\ Len(printed[n].subject) = 1
                /\ printed[n].subject[1].placeholder
          /\ ProgAsBuilt
    /\ (nb = "done" /\ HasPlaceholders(ph_prog)) =>
          \A cell \in {"address_default", "address_explicit"} :
              /\ Cardinality(PrintedBy(cell)) = 1
              /\ \A n \in PrintedBy(cell) :
                    /\ ~printed[n].error
                    /\ Len(printed[n].lines) = Len(ph_prog.instructions)
                    /\ Addressed(printed[n].lines)

C3_Witness ==
    /\ nb = "done"
    /\ ph_prog = NotebookProg
    /\ \E n \in PrintedBy("try_out") : printed[n].error

\* the text of a program with every placeholder q replaced by m[q]
Substituted(p, m) ==
    [n \in 1..Len(p.instructions) |->
        [op |-> p.instructions[n].name,
         args |-> [x \in 1..Len(p.instructions[n].qubits) |->
                      [placeholder |-> FALSE, ix |-> m[p.instructions[n].qubits[x].ix]]]]]

\* C4: address_qubits with an explicit mapping that covers the placeholders
\* of the program gives the same instructions in the same order, every
\* placeholder p replaced by mapping[p], and no placeholder left; q0 -> 14,
\* q1 -> 19 gives H 14; CNOT 14 19, and the register of 8 placeholders
\* mapped by i -> 2*i gives H on 0, 2, ..., 14 in the register's order.
C4_ExplicitMapping ==
    /\ Ran("address_explicit") =>
          /\ PrintedBy("address_explicit") # {}
          /\ \A n \in PrintedBy("address_explicit") :
                /\ printed[n].lines = Substituted(ph_prog, qubit_mapping)
                /\ Addressed(printed[n].lines)
                /\ (ph_prog = NotebookProg /\ qubit_mapping = NotebookMapping) =>
                      printed[n].lines =
                          <<[op |-> "H", args |-> <<Qubit(14)>>],
                            [op |-> "CNOT", args |-> <<Qubit(14), Qubit(19)>>]>>
    /\ Ran("register") =>
          /\ PrintedBy("register") # {}
          /\ \A n \in PrintedBy("register") :
                printed[n].lines =
                    [x \in 1..8 |-> [op |-> "H", args |-> <<Qubit(2 * (x - 1))>>]]

C4_Witness ==
    /\ nb = "done"
    /\ Len(ph_prog.instructions) = MaxLen
    /\ qubit_mapping[0] = qubit_mapping[1]
    /\ \E n \in 1..Len(ph_prog.instructions) : Len(ph_prog.instructions[n].qubits) = 2

\* the place of the first appearance of a qubit in a program
FirstAppearance(p, q) ==
    LET at == {c \in (1..Len(p.instructions)) \X (1..2) :
                  /\ c[2] <= Len(p.instructions[c[1]].qubits)
                  /\ p.instructions[c[1]].qubits[c[2]] = q}
    IN  CHOOSE c \in at : \A d \in at :
            c[1] < d[1] \/ (c[1] = d[1] /\ c[2] <= d[2])

Before(c, d) == c[1] < d[1] \/ (c[1] = d[1] /\ c[2] < d[2])

====
